---- MODULE Spec2Model ----
(***************************************************************************)
(* generate_test_vectors.c: the CRC32 table builder (init_crc32_table),    *)
(* the table-driven checksum (calculate_crc32) and the main routine that   *)
(* writes the test vectors.                                                *)
(*                                                                         *)
(* A uint32_t is the pair <<hi, lo>> of its 16-bit halves, so that every   *)
(* operation keeps the 32-bit width (TLC's integers are signed 32-bit and *)
(* cannot hold 0xFFFFFFFF).                                                *)
(***************************************************************************)
EXTENDS Integers, Sequences, FiniteSets

VARIABLES
    crc32_table,  \* the global uint32_t crc32_table[256]
    pc,           \* position of main: start, init_loop, fopen, header, loop1, loop2, exit; "lib" when main is not running
    endian,       \* byte order of the build: "little" or "big"
    ti,           \* loop variable i of init_crc32_table
    fp,           \* the FILE*: "unset", "null", "open", "closed"
    file,         \* what has been written to the output file
    stdout,       \* what has been printed
    ret,          \* return value of main, -1 while running
    k,            \* loop variable i of main's two loops
    opens,        \* history: number of calls of fopen
    initRuns,     \* history: number of calls of init_crc32_table
    writes,       \* history: number of stores into crc32_table
    calls,        \* history: number of calls of calculate_crc32 by main
    callsPer,     \* history: calls of calculate_crc32 per test input
    earlyCalls,   \* history: calls of calculate_crc32 begun on an incomplete table
    cpc,          \* per caller of calculate_crc32: "idle", "run", "done"
    cdata,        \* per caller: the buffer it passed
    ci,           \* per caller: loop variable i of calculate_crc32
    ccrc,         \* per accumulator: the local crc of calculate_crc32
    cres,         \* per caller: the value returned, NoResult before
    lookups,      \* history, per caller: table lookups of the current call
    overlapped,   \* history, per caller: another caller stepped during the call
    ncalls,       \* history: completed calls of the sequential caller
    firstData,    \* history: buffer of the first completed call
    firstRes,     \* history: value returned by the first completed call
    between       \* history: a call on another buffer completed after the first

mainVars == <<pc, endian, ti, fp, file, stdout, ret, k, opens, initRuns, writes,
              calls, callsPer, earlyCalls>>
callVars == <<cpc, cdata, ci, ccrc, cres, lookups, overlapped>>
histVars == <<ncalls, firstData, firstRes, between>>
vars == <<crc32_table, mainVars, callVars, histVars>>

----------------------------------------------------------------------------
(* Bounds of the model *)

MaxLen == 2
NumCallers == 2
MaxCalls == 3

----------------------------------------------------------------------------
(* Unsigned 32-bit arithmetic *)

Half == 2 ^ 16

U32(hi, lo) == <<hi, lo>>

RECURSIVE BitXor(_, _)
BitXor(a, b) ==
    IF a = 0 THEN b
    ELSE IF b = 0 THEN a
    ELSE ((a + b) % 2) + 2 * BitXor(a \div 2, b \div 2)

RECURSIVE BitAnd(_, _)
BitAnd(a, b) ==
    IF a = 0 \/ b = 0 THEN 0
    ELSE ((a % 2) * (b % 2)) + 2 * BitAnd(a \div 2, b \div 2)

Xor32(x, y) == U32(BitXor(x[1], y[1]), BitXor(x[2], y[2]))

And32(x, y) == U32(BitAnd(x[1], y[1]), BitAnd(x[2], y[2]))

\* ~x
Not32(x) == U32(Half - 1 - x[1], Half - 1 - x[2])

\* -x, modulo 2^32
Neg32(x) ==
    IF x[2] = 0 THEN U32((Half - x[1]) % Half, 0)
    ELSE U32(Half - 1 - x[1], Half - x[2])

\* x >> n, logical, for 0 <= n <= 16
Shr32(x, n) == U32(x[1] \div (2 ^ n), (x[2] \div (2 ^ n)) + (x[1] % (2 ^ n)) * (2 ^ (16 - n)))

Zero32 == U32(0, 0)
One32 == U32(0, 1)

\* the values of a uint32_t, of a uint8_t
Word32 == (0 .. Half - 1) \X (0 .. Half - 1)
Byte == 0 .. 255

----------------------------------------------------------------------------
(* init_crc32_table *)

TableSize == 256
BitsPerByte == 8

Poly == U32(\hEDB8, \h8320)

\* crc = (crc >> 1) ^ (0xEDB88320 & -(crc & 1))
TableStep_NoNeg(crc) == Xor32(Shr32(crc, 1), And32(Poly, And32(crc, One32)))
TableStep(crc) == Xor32(Shr32(crc, 1), And32(Poly, Neg32(And32(crc, One32))))

\* for (j = 0; j < 8; j++) crc = ...
TableLoop[crc \in Word32, j \in 0 .. BitsPerByte] ==
    IF j < BitsPerByte THEN TableLoop[TableStep(crc), j + 1] ELSE crc

\* the value stored at crc32_table[i]
TableEntry(i) == TableLoop[U32(0, i), 0]

\* the table as a whole call of init_crc32_table leaves it
init_crc32_table == [i \in 0 .. TableSize - 1 |-> TableEntry(i)]

\* the zero-initialised global
ZeroTable == [i \in 0 .. TableSize - 1 |-> Zero32]

----------------------------------------------------------------------------
(* calculate_crc32 *)

\* uint32_t crc = 0xFFFFFFFF
CrcInit_Zero == Zero32
CrcInit == U32(\hFFFF, \hFFFF)

\* (crc ^ data[i]) & 0xFF
TableIndex(crc, b) == And32(Xor32(crc, U32(0, b)), U32(0, 255))[2]

\* crc = (crc >> 8) ^ crc32_table[(crc ^ data[i]) & 0xFF]
CrcUpdate_NoData(table, crc, b) == Xor32(Shr32(crc, 8), table[TableIndex(crc, 0)])
CrcUpdate(table, crc, b) == Xor32(Shr32(crc, 8), table[TableIndex(crc, b)])

\* return ~crc
CrcFinal_NoNot(crc) == crc
CrcFinal(crc) == Not32(crc)

\* for (i = 0; i < len; i++) crc = ...   (data[i] is data[i + 1] of the sequence)
CrcLoop(table, data) ==
    LET loop[i \in 0 .. Len(data), crc \in Word32] ==
            IF i < Len(data) THEN loop[i + 1, CrcUpdate(table, crc, data[i + 1])] ELSE crc
    IN  loop[0, CrcInit]

\* a whole call, run alone
calculate_crc32(table, data) == CrcFinal(CrcLoop(table, data))

----------------------------------------------------------------------------
(* main: the test inputs and their bytes in memory *)

NumTests == 6
WordBytes == 4

test_data ==
    << U32(\h0000, \h0000), U32(\hFFFF, \hFFFF), U32(\h1234, \h5678),
       U32(\hDEAD, \hBEEF), U32(\hAAAA, \hAAAA), U32(\h5555, \h5555) >>

\* [w & 0xFF, (w >> 8) & 0xFF, (w >> 16) & 0xFF, (w >> 24) & 0xFF]
BytesLE(w) == << w[2] % 256, w[2] \div 256, w[1] % 256, w[1] \div 256 >>

BytesBE(w) == << w[1] \div 256, w[1] % 256, w[2] \div 256, w[2] % 256 >>

\* (uint8_t*)&test_data[i]: the object representation, in the build's byte order
BytesOf(w) == IF endian = "little" THEN BytesLE(w) ELSE BytesBE(w)

\* the 32 digits of "Binary:", bit 31 first, a space after bits 24, 16, 8, 0
RECURSIVE BinaryFrom(_, _)
BinaryFrom(w, j) ==
    IF j < 0 THEN << >>
    ELSE LET bit == IF j >= 16 THEN (w[1] \div (2 ^ (j - 16))) % 2
                               ELSE (w[2] \div (2 ^ j)) % 2
         IN  <<bit>> \o (IF j % 8 = 0 THEN <<" ">> ELSE << >>) \o BinaryFrom(w, j - 1)

Binary(w) == BinaryFrom(w, 31)

----------------------------------------------------------------------------
(* The callers of calculate_crc32 *)

Callers == 1 .. NumCallers
NoResult == << >>
NoData == << >>

CallInit ==
    /\ cpc = [c \in Callers |-> "idle"]
    /\ cdata = [c \in Callers |-> NoData]
    /\ ci = [c \in Callers |-> 0]
    /\ ccrc = [c \in Callers |-> Zero32]
    /\ cres = [c \in Callers |-> NoResult]
    /\ lookups = [c \in Callers |-> 0]
    /\ overlapped = [c \in Callers |-> FALSE]

HistInit ==
    /\ ncalls = 0
    /\ firstData = NoData
    /\ firstRes = NoResult
    /\ between = FALSE

----------------------------------------------------------------------------
(* main *)

Init ==
    /\ crc32_table = ZeroTable
    /\ pc = "start"
    /\ endian \in {"little", "big"}
    /\ ti = 0
    /\ fp = "unset"
    /\ file = << >>
    /\ stdout = << >>
    /\ ret = -1
    /\ k = 0
    /\ opens = 0
    /\ initRuns = 0
    /\ writes = 0
    /\ calls = 0
    /\ callsPer = [n \in 1 .. NumTests |-> 0]
    /\ earlyCalls = 0
    /\ CallInit
    /\ HistInit

\* main calls init_crc32_table()
MainCallsInit_Skipped ==
    /\ pc = "start"
    /\ pc' = "fopen"
    /\ UNCHANGED <<crc32_table, endian, ti, fp, file, stdout, ret, k, opens, initRuns, writes,
                   calls, callsPer, earlyCalls, callVars, histVars>>
MainCallsInit ==
    /\ pc = "start"
    /\ pc' = "init_loop"
    /\ ti' = 0
    /\ initRuns' = initRuns + 1
    /\ UNCHANGED <<crc32_table, endian, opens, fp, file, stdout, ret, k, writes, calls,
                   callsPer, earlyCalls, callVars, histVars>>

\* one iteration of for (i = 0; i < 256; i++) { ...; crc32_table[i] = crc; }
InitLoopBody ==
    /\ pc = "init_loop"
    /\ ti < TableSize
    /\ crc32_table' = [crc32_table EXCEPT ![ti] = TableEntry(ti)]
    /\ ti' = ti + 1
    /\ writes' = writes + 1
    /\ UNCHANGED <<pc, endian, fp, file, stdout, ret, k, opens, initRuns, calls, callsPer,
                   earlyCalls, callVars, histVars>>

\* i == 256: init_crc32_table returns, main goes on to fopen
InitLoopExit ==
    /\ pc = "init_loop"
    /\ ~(ti < TableSize)
    /\ pc' = "fopen"
    /\ UNCHANGED <<crc32_table, endian, ti, fp, file, stdout, ret, k, opens, initRuns, writes,
                   calls, callsPer, earlyCalls, callVars, histVars>>

\* fopen(...) returns a stream
FopenOk ==
    /\ pc = "fopen"
    /\ opens' = opens + 1
    /\ fp' = "open"
    /\ pc' = "header"
    /\ UNCHANGED <<crc32_table, endian, ti, file, stdout, ret, k, initRuns, writes,
                   calls, callsPer, earlyCalls, callVars, histVars>>

\* fopen(...) returns NULL: if (!fp) { printf("Error opening file!\n"); return 1; }
FopenFail_NoReturn ==
    /\ pc = "fopen"
    /\ opens' = opens + 1
    /\ fp' = "null"
    /\ stdout' = Append(stdout, "Error opening file!")
    /\ pc' = "header"
    /\ UNCHANGED <<crc32_table, endian, ti, file, ret, k, initRuns, writes, calls, callsPer,
                   earlyCalls, callVars, histVars>>
FopenFail ==
    /\ pc = "fopen"
    /\ opens' = opens + 1
    /\ fp' = "null"
    /\ stdout' = Append(stdout, "Error opening file!")
    /\ ret' = 1
    /\ pc' = "exit"
    /\ UNCHANGED <<crc32_table, endian, ti, file, k, initRuns, writes, calls, callsPer,
                   earlyCalls, callVars, histVars>>

\* the two comment lines at the head of the file
WriteHeader ==
    /\ pc = "header"
    /\ file' = file \o << [kind |-> "comment", text |-> "// Test vectors for Verilog testbench"],
                          [kind |-> "comment",
                           text |-> "// Format: Input_Data, Expected_CRC32, Expected_Hamming"] >>
    /\ k' = 0
    /\ pc' = "loop1"
    /\ UNCHANGED <<crc32_table, endian, ti, fp, stdout, ret, opens, initRuns, writes, calls,
                   callsPer, earlyCalls, callVars, histVars>>

\* the bookkeeping of one call calculate_crc32(bytes, 4) for test input k
Called ==
    /\ calls' = calls + 1
    /\ callsPer' = [callsPer EXCEPT ![k + 1] = @ + 1]
    /\ earlyCalls' = earlyCalls + (IF writes < TableSize THEN 1 ELSE 0)

\* one iteration of the first loop: the text block of test input k
Loop1Body ==
    /\ pc = "loop1"
    /\ k < NumTests
    /\ LET bytes == SubSeq(BytesOf(test_data[k + 1]), 1, WordBytes)
           crc == calculate_crc32(crc32_table, bytes)
       IN  file' = Append(file, [kind |-> "text", test |-> k + 1, input |-> test_data[k + 1],
                                 crc |-> crc, binary |-> Binary(test_data[k + 1])])
    /\ Called
    /\ k' = k + 1
    /\ UNCHANGED <<crc32_table, pc, endian, ti, fp, stdout, ret, opens, initRuns, writes,
                   callVars, histVars>>

\* the first loop ends; the comment line before the task calls
Loop1Exit ==
    /\ pc = "loop1"
    /\ ~(k < NumTests)
    /\ file' = Append(file, [kind |-> "comment", text |-> "// Verilog testbench task calls:"])
    /\ k' = 0
    /\ pc' = "loop2"
    /\ UNCHANGED <<crc32_table, endian, ti, fp, stdout, ret, opens, initRuns, writes, calls,
                   callsPer, earlyCalls, callVars, histVars>>

\* one iteration of the second loop: the task call of test input k
Loop2Body_Reuse ==
    /\ pc = "loop2"
    /\ k < NumTests
    /\ file' = Append(file, [kind |-> "verilog", input |-> test_data[k + 1],
                             crc |-> (CHOOSE r \in {file[n] : n \in 1 .. Len(file)} :
                                         r.kind = "text" /\ r.test = k + 1).crc])
    /\ k' = k + 1
    /\ UNCHANGED <<crc32_table, pc, endian, ti, fp, stdout, ret, opens, initRuns, writes, calls,
                   callsPer, earlyCalls, callVars, histVars>>
Loop2Body ==
    /\ pc = "loop2"
    /\ k < NumTests
    /\ LET bytes == SubSeq(BytesOf(test_data[k + 1]), 1, WordBytes)
           crc == calculate_crc32(crc32_table, bytes)
       IN  file' = Append(file, [kind |-> "verilog", input |-> test_data[k + 1], crc |-> crc])
    /\ Called
    /\ k' = k + 1
    /\ UNCHANGED <<crc32_table, pc, endian, ti, fp, stdout, ret, opens, initRuns, writes,
                   callVars, histVars>>

\* the second loop ends: fclose, the two messages, return 0
Loop2Exit ==
    /\ pc = "loop2"
    /\ ~(k < NumTests)
    /\ fp' = "closed"
    /\ stdout' = stdout \o << "Test vectors generated successfully!",
                              "File saved to: C:\\Users\\kanmo\\Desktop\\co project\\test_vectors.txt" >>
    /\ ret' = 0
    /\ pc' = "exit"
    /\ UNCHANGED <<crc32_table, endian, ti, file, k, opens, initRuns, writes, calls, callsPer,
                   earlyCalls, callVars, histVars>>

Next ==
    \/ MainCallsInit
    \/ InitLoopBody
    \/ InitLoopExit
    \/ FopenOk
    \/ FopenFail
    \/ WriteHeader
    \/ Loop1Body
    \/ Loop1Exit
    \/ Loop2Body
    \/ Loop2Exit

Spec == Init /\ [][Next]_vars

----------------------------------------------------------------------------
(* calculate_crc32 step by step, one caller per thread *)

\* uint32_t crc is an automatic variable: every call has its own
Acc_Shared(c) == 1
Acc(c) == c

\* entry, with the buffer d: uint32_t crc = 0xFFFFFFFF; i = 0
Begin_Static(c, d) ==
    /\ cpc[c] # "run"
    /\ cpc' = [cpc EXCEPT ![c] = "run"]
    /\ cdata' = [cdata EXCEPT ![c] = d]
    /\ ci' = [ci EXCEPT ![c] = 0]
    /\ cres' = [cres EXCEPT ![c] = NoResult]
    /\ lookups' = [lookups EXCEPT ![c] = 0]
    /\ overlapped' = [overlapped EXCEPT ![c] = FALSE]
    /\ UNCHANGED <<crc32_table, mainVars, ccrc>>
Begin(c, d) ==
    /\ cpc[c] # "run"
    /\ cpc' = [cpc EXCEPT ![c] = "run"]
    /\ cdata' = [cdata EXCEPT ![c] = d]
    /\ ci' = [ci EXCEPT ![c] = 0]
    /\ ccrc' = [ccrc EXCEPT ![Acc(c)] = CrcInit]
    /\ cres' = [cres EXCEPT ![c] = NoResult]
    /\ lookups' = [lookups EXCEPT ![c] = 0]
    /\ overlapped' = [overlapped EXCEPT ![c] = FALSE]
    /\ UNCHANGED <<crc32_table, mainVars>>

\* one iteration of the loop: i < len, one table lookup
Step(c) ==
    /\ cpc[c] = "run"
    /\ ci[c] < Len(cdata[c])
    /\ ccrc' = [ccrc EXCEPT ![Acc(c)] =
                   CrcUpdate(crc32_table, ccrc[Acc(c)], cdata[c][ci[c] + 1])]
    /\ ci' = [ci EXCEPT ![c] = @ + 1]
    /\ lookups' = [lookups EXCEPT ![c] = @ + 1]
    /\ overlapped' = [o \in Callers |-> overlapped[o] \/ (o # c /\ cpc[o] = "run")]
    /\ UNCHANGED <<crc32_table, mainVars, cpc, cdata, cres>>

\* i == len: return ~crc
Return(c) ==
    /\ cpc[c] = "run"
    /\ ~(ci[c] < Len(cdata[c]))
    /\ cres' = [cres EXCEPT ![c] = CrcFinal(ccrc[Acc(c)])]
    /\ cpc' = [cpc EXCEPT ![c] = "done"]
    /\ UNCHANGED <<crc32_table, mainVars, cdata, ci, ccrc, lookups, overlapped>>

\* main is not running: the table is the zero global or the one init_crc32_table built
LibInit(table) ==
    /\ crc32_table = table
    /\ pc = "lib"
    /\ endian = "little"
    /\ ti = (IF table = ZeroTable THEN 0 ELSE TableSize)
    /\ fp = "unset"
    /\ file = << >>
    /\ stdout = << >>
    /\ ret = -1
    /\ k = 0
    /\ opens = 0
    /\ initRuns = (IF table = ZeroTable THEN 0 ELSE 1)
    /\ writes = (IF table = ZeroTable THEN 0 ELSE TableSize)
    /\ calls = 0
    /\ callsPer = [n \in 1 .. NumTests |-> 0]
    /\ earlyCalls = 0
    /\ CallInit
    /\ HistInit

----------------------------------------------------------------------------
(* The buffers of the model *)

ByteSet == {0, 49, 255}

SeqsUpTo(n) == UNION {[1 .. m -> ByteSet] : m \in 0 .. n}

TestBuffers ==
    {BytesLE(test_data[n]) : n \in 1 .. NumTests} \cup {BytesBE(test_data[n]) : n \in 1 .. NumTests}

\* "123456789"
CheckString == <<49, 50, 51, 52, 53, 54, 55, 56, 57>>

Inputs == SeqsUpTo(MaxLen) \cup TestBuffers \cup {CheckString}

ConcInputs == {<< >>, <<0>>} \cup {BytesLE(test_data[n]) : n \in 1 .. 4}

----------------------------------------------------------------------------
(* One caller, one call after the other *)

InitSeq == \E table \in {ZeroTable, init_crc32_table} : LibInit(table)

SeqBegin ==
    /\ ncalls < MaxCalls
    /\ \E d \in Inputs : Begin(1, d)
    /\ UNCHANGED histVars

SeqStep == Step(1) /\ UNCHANGED histVars

SeqReturn ==
    /\ Return(1)
    /\ ncalls' = ncalls + 1
    /\ IF ncalls = 0
       THEN /\ firstData' = cdata[1]
            /\ firstRes' = cres'[1]
            /\ between' = FALSE
       ELSE /\ UNCHANGED <<firstData, firstRes>>
            /\ between' = (between \/ cdata[1] # firstData)

NextSeq == SeqBegin \/ SeqStep \/ SeqReturn

SpecSeq == InitSeq /\ [][NextSeq]_vars

----------------------------------------------------------------------------
(* Several callers at once, after init_crc32_table has completed *)

InitConc == LibInit(init_crc32_table)

ConcBegin == \E c \in Callers : \E d \in ConcInputs : Begin(c, d) /\ UNCHANGED histVars

ConcStep == \E c \in Callers : Step(c) /\ UNCHANGED histVars

ConcReturn == \E c \in Callers : Return(c) /\ UNCHANGED histVars

NextConc == ConcBegin \/ ConcStep \/ ConcReturn

SpecConc == InitConc /\ [][NextConc]_vars

----------------------------------------------------------------------------
(* The reference: reflected CRC32 bit by bit, without a table *)

RefPoly == U32(\hEDB8, \h8320)

\* shift right by 1, XOR the polynomial if the bit shifted out was 1
RefBit(crc) ==
    IF crc[2] % 2 = 1 THEN Xor32(Shr32(crc, 1), RefPoly) ELSE Shr32(crc, 1)

RefBits[crc \in Word32, n \in 0 .. 8] ==
    IF n = 0 THEN crc ELSE RefBits[RefBit(crc), n - 1]

RefTable == [i \in 0 .. 255 |-> RefBits[U32(0, i), 8]]

RefBytes[crc \in Word32, data \in Seq(Byte)] ==
    IF data = << >> THEN crc
    ELSE RefBytes[RefBits[Xor32(crc, U32(0, Head(data))), 8], Tail(data)]

RefCRC32(data) == Not32(RefBytes[U32(\hFFFF, \hFFFF), data])

----------------------------------------------------------------------------
(* Properties *)

\* C1: with the table init_crc32_table builds, calculate_crc32 of every buffer
\* (the four bytes 0xFF among them) returns the reflected CRC32 of the buffer
\* computed bit by bit without a table.
C1_TableDrivenIsBitwise ==
    (crc32_table = init_crc32_table /\ cpc[1] = "done") => cres[1] = RefCRC32(cdata[1])

C1_Witness ==
    /\ crc32_table = init_crc32_table
    /\ cpc[1] = "done"
    /\ cdata[1] = <<255, 255, 255, 255>>
    /\ cres[1] = RefCRC32(<<255, 255, 255, 255>>)

\* C2, as stated: with the table built, calculate_crc32 of the four bytes
\* 0x00 0x00 0x00 0x00 returns 0xD202EF8D.
C2_FourZeroBytes_D202EF8D ==
    (crc32_table = init_crc32_table /\ cpc[1] = "done" /\ cdata[1] = <<0, 0, 0, 0>>)
        => cres[1] = U32(\hD202, \hEF8D)

\* C2, amended: with the table built, calculate_crc32 of the four bytes
\* 0x00 0x00 0x00 0x00 returns 0x2144DF1C; 0xD202EF8D is what it returns for
\* the single byte 0x00.
C2_FourZeroBytes_2144DF1C ==
    (crc32_table = init_crc32_table /\ cpc[1] = "done")
        => /\ cdata[1] = <<0, 0, 0, 0>> => cres[1] = U32(\h2144, \hDF1C)
           /\ cdata[1] = <<0>> => cres[1] = U32(\hD202, \hEF8D)

C2_Witness ==
    /\ crc32_table = init_crc32_table
    /\ cpc[1] = "done"
    /\ cdata[1] = <<0, 0, 0, 0>>
    /\ cres[1] = U32(\h2144, \hDF1C)

\* C3: a call with len = 0 does no table lookup and returns 0x00000000,
\* whether the table is built or still all zero.
C3_EmptyIsZero ==
    (cpc[1] = "done" /\ Len(cdata[1]) = 0) => (cres[1] = Zero32 /\ lookups[1] = 0)

C3_Witness ==
    /\ crc32_table = ZeroTable
    /\ cpc[1] = "done"
    /\ Len(cdata[1]) = 0
    /\ cres[1] = Zero32

\* C4: once init_crc32_table has returned, every crc32_table[i] is the result of
\* 8 iterations of the conditional shift-and-XOR from crc = i, and
\* crc32_table[0] is 0; while it runs, the entries already stored are.
C4_TableIsConditional ==
    /\ \A i \in 0 .. TableSize - 1 : i < ti => crc32_table[i] = RefTable[i]
    /\ pc \notin {"start", "init_loop"} => (crc32_table = RefTable /\ crc32_table[0] = Zero32)

C4_Witness ==
    /\ pc = "fopen"
    /\ ti = TableSize
    /\ crc32_table[0] = Zero32
    /\ crc32_table[255] = U32(\h2D02, \hEF8D)

\* the CRCs written in the records of one kind for the input w
Emitted(kind, w) ==
    {file[n].crc : n \in {m \in 1 .. Len(file) : file[m].kind = kind /\ file[m].input = w}}

\* C5, as stated: when the file opened and main has returned, calculate_crc32
\* was called once per test input, 6 calls in total.
C5_OncePerInput ==
    (pc = "exit" /\ ret = 0)
        => (calls = NumTests /\ \A n \in 1 .. NumTests : callsPer[n] = 1)

\* C5, amended: when the file opened and main has returned, calculate_crc32 was
\* called twice per test input, once for the text block and once for the task
\* call, 12 calls in total, and the two results for an input are equal.
C5_TwicePerInput ==
    (pc = "exit" /\ ret = 0)
        => /\ calls = 2 * NumTests
           /\ \A n \in 1 .. NumTests :
                 /\ callsPer[n] = 2
                 /\ Cardinality(Emitted("text", test_data[n])) = 1
                 /\ Emitted("text", test_data[n]) = Emitted("verilog", test_data[n])

C5_Witness == pc = "exit" /\ ret = 0 /\ calls = 12 /\ Len(file) = 15

\* C6: init_crc32_table runs once, has stored all 256 entries before the first
\* call of calculate_crc32, and nothing is stored into crc32_table afterwards.
C6_TableBuiltBeforeUse ==
    /\ initRuns <= 1
    /\ writes <= TableSize
    /\ earlyCalls = 0
    /\ calls > 0 => (initRuns = 1 /\ writes = TableSize /\ ti = TableSize
                     /\ crc32_table = init_crc32_table)
    /\ pc \in {"loop1", "loop2", "exit"} => (initRuns = 1 /\ writes = TableSize)

C6_Witness == pc = "exit" /\ calls = 2 * NumTests /\ initRuns = 1 /\ writes = TableSize

\* C7: with the table built, every caller of calculate_crc32 gets the value the
\* call returns when run alone, however the callers' loop steps interleave, and
\* the table stays as built.
C7_ConcurrentSameAsAlone ==
    /\ crc32_table = init_crc32_table
    /\ \A c \in Callers :
          cpc[c] = "done" => cres[c] = calculate_crc32(init_crc32_table, cdata[c])

C7_Witness ==
    /\ cpc[1] = "done" /\ overlapped[1] /\ Len(cdata[1]) = 4
    /\ cpc[2] = "done" /\ overlapped[2] /\ Len(cdata[2]) = 4
    /\ cdata[1] # cdata[2]

\* a step of a call leaves the table and the buffer as they are, and a call
\* starts from 0xFFFFFFFF whatever the call before left
C8_Frame ==
    /\ crc32_table' = crc32_table
    /\ cpc[1] = "run" => cdata'[1] = cdata[1]
    /\ (cpc[1] # "run" /\ cpc'[1] = "run") => ccrc'[Acc(1)] = CrcInit

C8_RepeatSame ==
    (cpc[1] = "done" /\ ncalls >= 1 /\ cdata[1] = firstData) => cres[1] = firstRes

\* C8: a sequence of calculate_crc32 calls leaves crc32_table and the buffers
\* unchanged, every call starts from 0xFFFFFFFF, and a call repeated on the
\* buffer of the first call returns what the first call returned.
C8_NoStateCarried == [](C8_RepeatSame) /\ [][C8_Frame]_vars

C8_Witness ==
    /\ cpc[1] = "done"
    /\ ncalls = 3
    /\ between
    /\ Len(firstData) = 4
    /\ cdata[1] = firstData
    /\ cres[1] = firstRes

\* C9: when fopen fails, main has printed the error and returned 1 after one
\* attempt, nothing was written, calculate_crc32 was not called, and crc32_table
\* is the table init_crc32_table built.
C9_OpenFailure ==
    fp = "null"
        => /\ pc = "exit"
           /\ ret = 1
           /\ opens = 1
           /\ stdout = <<"Error opening file!">>
           /\ file = << >>
           /\ calls = 0
           /\ crc32_table = init_crc32_table

C9_Witness == fp = "null" /\ pc = "exit" /\ ret = 1 /\ initRuns = 1

\* C10: every CRC main writes for a test input w, in the text block and in the
\* task call, is the checksum of the bytes of w least-significant byte first,
\* and the two are equal.
C10_LsbFirst ==
    \A n \in 1 .. Len(file) :
        file[n].kind \in {"text", "verilog"}
            => /\ file[n].crc = calculate_crc32(init_crc32_table, BytesLE(file[n].input))
               /\ Emitted("text", file[n].input) = {file[n].crc}

====
